---- MODULE Spec2Model ----
(***************************************************************************)
(* A model of fetch_models.py: PerplexityModelsFetcher (lazy memoized HTTP *)
(* session, page fetch, two-pass model extraction, auxiliary endpoints,    *)
(* static fallback catalog) and get_available_models.                      *)
(*                                                                         *)
(* Python strings are sequences of one-character strings, so that length,  *)
(* prefix, substring, case folding and title-casing are computed and not   *)
(* looked up.  JSON documents are trees of tagged records.                 *)
(***************************************************************************)
EXTENDS Integers, Sequences, FiniteSets, TLC

(***************************************************************************)
(* Character and string primitives (Python str methods used by the code).  *)
(***************************************************************************)
LowerLetters ==
  <<"a","b","c","d","e","f","g","h","i","j","k","l","m",
    "n","o","p","q","r","s","t","u","v","w","x","y","z">>

UpperLetters ==
  <<"A","B","C","D","E","F","G","H","I","J","K","L","M",
    "N","O","P","Q","R","S","T","U","V","W","X","Y","Z">>

Digits == {"0","1","2","3","4","5","6","7","8","9"}

IsLower(c) == \E i \in 1..26 : LowerLetters[i] = c

IsUpper(c) == \E i \in 1..26 : UpperLetters[i] = c

IsLetter(c) == IsLower(c) \/ IsUpper(c)

\* str.lower() on one character
LowerChar(c) ==
  IF IsUpper(c) THEN LowerLetters[CHOOSE i \in 1..26 : UpperLetters[i] = c] ELSE c

\* str.upper() on one character
UpperChar(c) ==
  IF IsLower(c) THEN UpperLetters[CHOOSE i \in 1..26 : LowerLetters[i] = c] ELSE c

\* s.lower()
Lower(s) == [i \in 1..Len(s) |-> LowerChar(s[i])]

\* s.startswith(p)
StartsWith(s, p) == Len(s) >= Len(p) /\ SubSeq(s, 1, Len(p)) = p

\* p in s  (substring test)
Contains(s, p) ==
  \E i \in 1..(Len(s) + 1) :
    i + Len(p) - 1 <= Len(s) /\ SubSeq(s, i, i + Len(p) - 1) = p

\* s.replace("_", " ")
ReplaceUnderscore(s) == [i \in 1..Len(s) |-> IF s[i] = "_" THEN " " ELSE s[i]]

\* s.title(): a letter is upper-cased when the character before it is not a
\* letter (or it is first), lower-cased otherwise; other characters are kept.
Title(s) ==
  [i \in 1..Len(s) |->
     IF ~IsLetter(s[i]) THEN s[i]
     ELSE IF i > 1 /\ IsLetter(s[i - 1]) THEN LowerChar(s[i])
     ELSE UpperChar(s[i])]

(***************************************************************************)
(* ModelInfo (dataclass) and the identifier heuristics.                    *)
(***************************************************************************)
ModelInfo(identifier, name, description, mode, provider, is_pro, supports_reasoning) ==
  [identifier |-> identifier, name |-> name, description |-> description,
   mode |-> mode, provider |-> provider, is_pro |-> is_pro,
   supports_reasoning |-> supports_reasoning]

\* Known model ID patterns: a literal prefix, for r"^gpt\d" followed by a digit.
valid_patterns ==
  << [lit |-> <<"p","p","l","x","_">>, digit |-> FALSE],
     [lit |-> <<"g","p","t">>, digit |-> TRUE],
     [lit |-> <<"c","l","a","u","d","e">>, digit |-> FALSE],
     [lit |-> <<"g","e","m","i","n","i">>, digit |-> FALSE],
     [lit |-> <<"g","r","o","k">>, digit |-> FALSE],
     [lit |-> <<"s","o","n","a","r">>, digit |-> FALSE],
     [lit |-> <<"e","x","p","e","r","i","m","e","n","t","a","l">>, digit |-> FALSE],
     [lit |-> <<"k","i","m","i">>, digit |-> FALSE],
     [lit |-> <<"l","l","a","m","a">>, digit |-> FALSE],
     [lit |-> <<"m","i","s","t","r","a","l">>, digit |-> FALSE],
     [lit |-> <<"d","e","e","p","s","e","e","k">>, digit |-> FALSE] >>

\* Exclude common false positives (prefixes).
exclude_patterns ==
  << <<"a","p","i","_">>,
     <<"u","s","e","r","_">>,
     <<"s","e","s","s","i","o","n">>,
     <<"t","o","k","e","n">>,
     <<"a","u","t","h">>,
     <<"c","o","n","f","i","g">> >>

\* re.match(pattern, model_id, re.IGNORECASE) for a prefix pattern
MatchPrefix(lit, digit, model_id) ==
  /\ StartsWith(Lower(model_id), lit)
  /\ digit => (Len(model_id) > Len(lit) /\ model_id[Len(lit) + 1] \in Digits)

_is_valid_model_id(model_id) ==
  IF model_id = <<>> \/ Len(model_id) < 3 THEN FALSE
  ELSE IF \E i \in 1..Len(exclude_patterns) :
            MatchPrefix(exclude_patterns[i], FALSE, model_id) THEN FALSE
  ELSE \E i \in 1..Len(valid_patterns) :
         MatchPrefix(valid_patterns[i].lit, valid_patterns[i].digit, model_id)

name_mappings ==
  << << <<"p","p","l","x","_","b","e","t","a">>,
        <<"P","e","r","p","l","e","x","i","t","y"," ","L","a","b","s">> >>,
     << <<"p","p","l","x","_","a","l","p","h","a">>,
        <<"P","e","r","p","l","e","x","i","t","y"," ","R","e","s","e","a","r","c","h">> >>,
     << <<"p","p","l","x","_","p","r","o">>,
        <<"P","e","r","p","l","e","x","i","t","y"," ","P","r","o"," ","(","A","u","t","o",")">> >>,
     << <<"e","x","p","e","r","i","m","e","n","t","a","l">>,
        <<"S","o","n","a","r">> >>,
     << <<"g","p","t","5","1">>,
        <<"G","P","T","-","5",".","1">> >>,
     << <<"g","p","t","5","2">>,
        <<"G","P","T","-","5",".","2">> >>,
     << <<"g","p","t","5","1","_","t","h","i","n","k","i","n","g">>,
        <<"G","P","T","-","5",".","1"," ","T","h","i","n","k","i","n","g">> >>,
     << <<"c","l","a","u","d","e","4","5","s","o","n","n","e","t">>,
        <<"C","l","a","u","d","e"," ","4",".","5"," ","S","o","n","n","e","t">> >>,
     << <<"c","l","a","u","d","e","4","5","s","o","n","n","e","t","t","h","i","n","k","i","n","g">>,
        <<"C","l","a","u","d","e"," ","4",".","5"," ","S","o","n","n","e","t"," ","T","h","i","n","k","i","n","g">> >>,
     << <<"c","l","a","u","d","e","o","p","u","s","4","5">>,
        <<"C","l","a","u","d","e"," ","O","p","u","s"," ","4",".","5">> >>,
     << <<"g","e","m","i","n","i","3","0","p","r","o">>,
        <<"G","e","m","i","n","i"," ","3",".","0"," ","P","r","o"," ","T","h","i","n","k","i","n","g">> >>,
     << <<"g","r","o","k","4","1","n","o","n","r","e","a","s","o","n","i","n","g">>,
        <<"G","r","o","k"," ","4",".","1">> >>,
     << <<"k","i","m","i","k","2","t","h","i","n","k","i","n","g">>,
        <<"K","i","m","i"," ","K","2"," ","T","h","i","n","k","i","n","g">> >> >>

_infer_model_name(model_id) ==
  IF \E i \in 1..Len(name_mappings) : name_mappings[i][1] = model_id
  THEN name_mappings[CHOOSE i \in 1..Len(name_mappings) :
                       name_mappings[i][1] = model_id][2]
  ELSE Title(ReplaceUnderscore(model_id))

_infer_provider(model_id) ==
  LET model_id_lower == Lower(model_id) IN
  IF StartsWith(model_id_lower, <<"p","p","l","x">>)
     \/ model_id_lower = <<"e","x","p","e","r","i","m","e","n","t","a","l">>
  THEN <<"P","e","r","p","l","e","x","i","t","y">>
  ELSE IF StartsWith(model_id_lower, <<"g","p","t">>) THEN <<"O","p","e","n","A","I">>
  ELSE IF StartsWith(model_id_lower, <<"c","l","a","u","d","e">>) THEN <<"A","n","t","h","r","o","p","i","c">>
  ELSE IF StartsWith(model_id_lower, <<"g","e","m","i","n","i">>) THEN <<"G","o","o","g","l","e">>
  ELSE IF StartsWith(model_id_lower, <<"g","r","o","k">>) THEN <<"x","A","I">>
  ELSE IF StartsWith(model_id_lower, <<"k","i","m","i">>) THEN <<"M","o","o","n","s","h","o","t"," ","A","I">>
  ELSE IF StartsWith(model_id_lower, <<"l","l","a","m","a">>) THEN <<"M","e","t","a">>
  ELSE IF StartsWith(model_id_lower, <<"m","i","s","t","r","a","l">>) THEN <<"M","i","s","t","r","a","l"," ","A","I">>
  ELSE IF StartsWith(model_id_lower, <<"d","e","e","p","s","e","e","k">>) THEN <<"D","e","e","p","S","e","e","k">>
  ELSE <<"U","n","k","n","o","w","n">>

\* "thinking" in model_id.lower() or "reasoning" in model_id.lower()
SupportsReasoning(model_id) ==
  \/ Contains(Lower(model_id), <<"t","h","i","n","k","i","n","g">>)
  \/ Contains(Lower(model_id), <<"r","e","a","s","o","n","i","n","g">>)

_create_model_info(model_id) ==
  LET provider == _infer_provider(model_id) IN
  ModelInfo(model_id,
            _infer_model_name(model_id),
            provider \o <<" ","m","o","d","e","l">>,
            <<"c","o","p","i","l","o","t">>,
            provider,
            Contains(Lower(model_id), <<"p","r","o">>)
              \/ Contains(Lower(model_id), <<"a","l","p","h","a">>),
            SupportsReasoning(model_id))

\* The Fallback Catalog.
_get_default_models ==
  << ModelInfo(<<"p","p","l","x","_","p","r","o">>,
               <<"P","e","r","p","l","e","x","i","t","y"," ","P","r","o"," ","(","A","u","t","o",")">>,
               <<"A","u","t","o","-","s","e","l","e","c","t","s"," ","t","h","e"," ","b","e","s","t"," ","m","o","d","e","l">>,
               <<"c","o","p","i","l","o","t">>, <<"P","e","r","p","l","e","x","i","t","y">>, TRUE, FALSE),
     ModelInfo(<<"p","p","l","x","_","a","l","p","h","a">>,
               <<"P","e","r","p","l","e","x","i","t","y"," ","R","e","s","e","a","r","c","h">>,
               <<"D","e","e","p"," ","r","e","s","e","a","r","c","h"," ","m","o","d","e">>,
               <<"c","o","p","i","l","o","t">>, <<"P","e","r","p","l","e","x","i","t","y">>, TRUE, FALSE),
     ModelInfo(<<"p","p","l","x","_","b","e","t","a">>,
               <<"P","e","r","p","l","e","x","i","t","y"," ","L","a","b","s">>,
               <<"E","x","p","e","r","i","m","e","n","t","a","l"," ","f","e","a","t","u","r","e","s">>,
               <<"c","o","p","i","l","o","t">>, <<"P","e","r","p","l","e","x","i","t","y">>, TRUE, FALSE),
     ModelInfo(<<"e","x","p","e","r","i","m","e","n","t","a","l">>,
               <<"S","o","n","a","r">>,
               <<"F","a","s","t"," ","m","o","d","e","l"," ","f","o","r"," ","q","u","i","c","k"," ","q","u","e","r","i","e","s">>,
               <<"c","o","p","i","l","o","t">>, <<"P","e","r","p","l","e","x","i","t","y">>, FALSE, FALSE),
     ModelInfo(<<"g","p","t","5","1">>,
               <<"G","P","T","-","5",".","1">>,
               <<"O","p","e","n","A","I","'","s"," ","G","P","T","-","5",".","1">>,
               <<"c","o","p","i","l","o","t">>, <<"O","p","e","n","A","I">>, TRUE, FALSE),
     ModelInfo(<<"g","p","t","5","2">>,
               <<"G","P","T","-","5",".","2">>,
               <<"O","p","e","n","A","I","'","s"," ","G","P","T","-","5",".","2">>,
               <<"c","o","p","i","l","o","t">>, <<"O","p","e","n","A","I">>, TRUE, FALSE),
     ModelInfo(<<"g","p","t","5","1","_","t","h","i","n","k","i","n","g">>,
               <<"G","P","T","-","5",".","1"," ","T","h","i","n","k","i","n","g">>,
               <<"G","P","T","-","5",".","1"," ","w","i","t","h"," ","r","e","a","s","o","n","i","n","g">>,
               <<"c","o","p","i","l","o","t">>, <<"O","p","e","n","A","I">>, TRUE, TRUE),
     ModelInfo(<<"c","l","a","u","d","e","4","5","s","o","n","n","e","t">>,
               <<"C","l","a","u","d","e"," ","4",".","5"," ","S","o","n","n","e","t">>,
               <<"A","n","t","h","r","o","p","i","c","'","s"," ","C","l","a","u","d","e"," ","4",".","5"," ","S","o","n","n","e","t">>,
               <<"c","o","p","i","l","o","t">>, <<"A","n","t","h","r","o","p","i","c">>, TRUE, FALSE),
     ModelInfo(<<"c","l","a","u","d","e","4","5","s","o","n","n","e","t","t","h","i","n","k","i","n","g">>,
               <<"C","l","a","u","d","e"," ","4",".","5"," ","S","o","n","n","e","t"," ","T","h","i","n","k","i","n","g">>,
               <<"C","l","a","u","d","e"," ","4",".","5"," ","w","i","t","h"," ","r","e","a","s","o","n","i","n","g">>,
               <<"c","o","p","i","l","o","t">>, <<"A","n","t","h","r","o","p","i","c">>, TRUE, TRUE),
     ModelInfo(<<"c","l","a","u","d","e","o","p","u","s","4","5">>,
               <<"C","l","a","u","d","e"," ","O","p","u","s"," ","4",".","5">>,
               <<"A","n","t","h","r","o","p","i","c","'","s"," ","C","l","a","u","d","e"," ","O","p","u","s"," ","4",".","5">>,
               <<"c","o","p","i","l","o","t">>, <<"A","n","t","h","r","o","p","i","c">>, TRUE, FALSE),
     ModelInfo(<<"g","e","m","i","n","i","3","0","p","r","o">>,
               <<"G","e","m","i","n","i"," ","3",".","0"," ","P","r","o"," ","T","h","i","n","k","i","n","g">>,
               <<"G","o","o","g","l","e","'","s"," ","G","e","m","i","n","i"," ","w","i","t","h"," ","r","e","a","s","o","n","i","n","g">>,
               <<"c","o","p","i","l","o","t">>, <<"G","o","o","g","l","e">>, TRUE, TRUE),
     ModelInfo(<<"g","r","o","k","4","1","n","o","n","r","e","a","s","o","n","i","n","g">>,
               <<"G","r","o","k"," ","4",".","1">>,
               <<"x","A","I","'","s"," ","G","r","o","k"," ","4",".","1">>,
               <<"c","o","p","i","l","o","t">>, <<"x","A","I">>, TRUE, FALSE),
     ModelInfo(<<"k","i","m","i","k","2","t","h","i","n","k","i","n","g">>,
               <<"K","i","m","i"," ","K","2"," ","T","h","i","n","k","i","n","g">>,
               <<"M","o","o","n","s","h","o","t"," ","A","I","'","s"," ","K","i","m","i"," ","K","2">>,
               <<"c","o","p","i","l","o","t">>, <<"M","o","o","n","s","h","o","t"," ","A","I">>, TRUE, TRUE) >>

(***************************************************************************)
(* JSON documents (the result of json.loads / response.json()).  A value   *)
(* is a tagged record; a dict keeps its items in insertion order as        *)
(* <<key, value>> pairs with distinct keys, a list keeps its elements.     *)
(***************************************************************************)
JNull == [t |-> "null", s |-> <<>>, b |-> FALSE, items |-> <<>>]

JStr(s) == [t |-> "str", s |-> s, b |-> FALSE, items |-> <<>>]

JBool(b) == [t |-> "bool", s |-> <<>>, b |-> b, items |-> <<>>]

\* a non-zero JSON number
JNum == [t |-> "num", s |-> <<>>, b |-> TRUE, items |-> <<>>]

JDict(items) == [t |-> "dict", s |-> <<>>, b |-> FALSE, items |-> items]

JList(items) == [t |-> "list", s |-> <<>>, b |-> FALSE, items |-> items]

\* key in d
HasKey(d, key) == \E i \in 1..Len(d.items) : d.items[i][1] = key

\* d.get(key)  (None when absent)
Get(d, key) ==
  IF HasKey(d, key)
  THEN d.items[CHOOSE i \in 1..Len(d.items) : d.items[i][1] = key][2]
  ELSE JNull

\* Python truthiness of a JSON value
Truthy(v) ==
  CASE v.t = "null" -> FALSE
    [] v.t = "str" -> v.s /= <<>>
    [] v.t = "bool" -> v.b
    [] v.t = "num" -> TRUE
    [] OTHER -> v.items /= <<>>

\* The dictionary keys the code reads.
K_identifier == <<"i","d","e","n","t","i","f","i","e","r">>

K_modelId == <<"m","o","d","e","l","I","d">>

K_model == <<"m","o","d","e","l">>

K_name == <<"n","a","m","e">>

K_description == <<"d","e","s","c","r","i","p","t","i","o","n">>

K_mode == <<"m","o","d","e">>

K_provider == <<"p","r","o","v","i","d","e","r">>

K_isPro == <<"i","s","P","r","o">>

\* d.get(key, default) for the string-valued sibling fields.  The documents
\* of this model hold strings (or nothing) under these keys.
GetStr(d, key, default) == IF HasKey(d, key) THEN Get(d, key).s ELSE default

\* d.get("isPro", False); the documents of this model hold booleans there.
GetBool(d, key, default) == IF HasKey(d, key) THEN Get(d, key).b ELSE default

(***************************************************************************)
(* Pass A: _parse_next_data / search_dict.                                 *)
(***************************************************************************)
\* the depth bound of search_dict
MaxSearchDepth == 10

\* search_dict without its depth test
CutOff_Never(depth) == FALSE

\* "if depth > 10: return"
CutOff(depth) == depth > MaxSearchDepth

\* value.get("identifier") or value.get("modelId")
NodeModelId(value) ==
  IF Truthy(Get(value, K_identifier)) THEN Get(value, K_identifier)
  ELSE Get(value, K_modelId)

\* "identifier" in value or "modelId" in value
LooksLikeModel(value) == HasKey(value, K_identifier) \/ HasKey(value, K_modelId)

\* _is_valid_model_id applied to a JSON value that is not a string raises
\* TypeError: len() of a number or boolean, re.match on a list or dict that
\* passed the length test.
ValidRaises(v) ==
  /\ Truthy(v)
  /\ \/ v.t \in {"num", "bool"}
     \/ v.t \in {"dict", "list"} /\ Len(v.items) >= 3

\* model_id and self._is_valid_model_id(model_id), when it does not raise
ValidJson(v) == v.t = "str" /\ _is_valid_model_id(v.s)

\* The ModelInfo appended for a dict value that looks like a model definition
\* (a sequence of zero or one records).
NodeModel(value) ==
  IF LooksLikeModel(value) /\ ValidJson(NodeModelId(value))
  THEN LET model_id == NodeModelId(value).s IN
       << ModelInfo(model_id,
                    GetStr(value, K_name, model_id),
                    GetStr(value, K_description, <<>>),
                    GetStr(value, K_mode, <<"c","o","p","i","l","o","t">>),
                    GetStr(value, K_provider, <<"u","n","k","n","o","w","n">>),
                    GetBool(value, K_isPro, FALSE),
                    SupportsReasoning(model_id)) >>
  ELSE <<>>

RECURSIVE SearchItems(_, _, _)
RECURSIVE SearchList(_, _, _)

\* search_dict(d, depth): the models appended, in order
search_dict(d, depth) ==
  IF CutOff(depth) THEN <<>> ELSE SearchItems(d, depth, 1)

\* the loop "for key, value in d.items()" from item i on
SearchItems(d, depth, i) ==
  IF i > Len(d.items) THEN <<>>
  ELSE LET value == d.items[i][2] IN
       (IF value.t = "dict"
          THEN NodeModel(value) \o search_dict(value, depth + 1)
        ELSE IF value.t = "list"
          THEN SearchList(value, depth, 1)
        ELSE <<>>)
       \o SearchItems(d, depth, i + 1)

\* the loop "for item in value" from element j on
SearchList(value, depth, j) ==
  IF j > Len(value.items) THEN <<>>
  ELSE (IF value.items[j].t = "dict"
          THEN search_dict(value.items[j], depth + 1)
        ELSE <<>>)
       \o SearchList(value, depth, j + 1)

RECURSIVE RaisesItems(_, _, _)
RECURSIVE RaisesList(_, _, _)

\* whether search_dict(d, depth) raises (TypeError from _is_valid_model_id)
search_dict_raises(d, depth) ==
  IF CutOff(depth) THEN FALSE ELSE RaisesItems(d, depth, 1)

RaisesItems(d, depth, i) ==
  IF i > Len(d.items) THEN FALSE
  ELSE LET value == d.items[i][2] IN
       \/ /\ value.t = "dict"
          /\ \/ LooksLikeModel(value) /\ ValidRaises(NodeModelId(value))
             \/ search_dict_raises(value, depth + 1)
       \/ value.t = "list" /\ RaisesList(value, depth, 1)
       \/ RaisesItems(d, depth, i + 1)

RaisesList(value, depth, j) ==
  IF j > Len(value.items) THEN FALSE
  ELSE \/ value.items[j].t = "dict" /\ search_dict_raises(value.items[j], depth + 1)
       \/ RaisesList(value, depth, j + 1)

\* _parse_next_data(data): search_dict is defined for a dict; for any other
\* JSON document "d.items()" raises AttributeError.
_parse_next_data(data) ==
  IF data.t /= "dict" THEN [raised |-> TRUE, models |-> <<>>]
  ELSE IF search_dict_raises(data, 0) THEN [raised |-> TRUE, models |-> <<>>]
  ELSE [raised |-> FALSE, models |-> search_dict(data, 0)]

(***************************************************************************)
(* The page text.  A page is what the three regular expressions and the    *)
(* script-tag search can see of it: whether a __NEXT_DATA__ script block   *)
(* is present and parses ("none", "json", "malformed"), the parsed         *)
(* document, and the fragments "key": "token" that occur in the text       *)
(* outside the parsed document.                                            *)
(***************************************************************************)
RECURSIVE JsonItemsOcc(_, _)

\* The fragments "key": "token" that the serialised document v contains:
\* one for every string held under a key, at any depth.
JsonOcc(v) == IF v.t \in {"dict", "list"} THEN JsonItemsOcc(v, 1) ELSE {}

JsonItemsOcc(v, i) ==
  IF i > Len(v.items) THEN {}
  ELSE LET x == IF v.t = "dict" THEN v.items[i][2] ELSE v.items[i] IN
       (IF v.t = "dict" /\ x.t = "str" THEN {<< v.items[i][1], x.s >>} ELSE {})
       \cup JsonOcc(x) \cup JsonItemsOcc(v, i + 1)

\* every fragment "key": "token" of the page text
Occurrences(page) ==
  {page.text[i] : i \in 1..Len(page.text)}
  \cup (IF page.script = "json" THEN JsonOcc(page.data) ELSE {})

\* s.endswith(p)
EndsWith(s, p) == Len(s) >= Len(p) /\ SubSeq(s, Len(s) - Len(p) + 1, Len(s)) = p

\* model_patterns, as conditions on the quoted key before the colon
\* (re.IGNORECASE): "identifier", "model", and a key that ends with modelId.
model_patterns(key) ==
  \/ Lower(key) = K_identifier
  \/ Lower(key) = K_model
  \/ EndsWith(Lower(key), Lower(K_modelId))

\* the capture group ([a-z0-9_]+) between the quotes, re.IGNORECASE
IdToken(tok) ==
  /\ tok /= <<>>
  /\ \A i \in 1..Len(tok) : IsLetter(tok[i]) \/ tok[i] \in Digits \/ tok[i] = "_"

\* found_ids after the loop over the patterns
found_ids(page) ==
  {occ[2] : occ \in {o \in Occurrences(page) :
                       model_patterns(o[1]) /\ IdToken(o[2]) /\ _is_valid_model_id(o[2])}}

\* the orders in which a Python set may be iterated
Orderings(S) ==
  {o \in [1..Cardinality(S) -> S] : \A x \in S : \E i \in 1..Cardinality(S) : o[i] = x}

\* _extract_models_from_html(html): the outcomes it can have.  Each is
\* [raised, models]; more than one when the iteration order of found_ids
\* decides the order of the appended models.
_extract_models_from_html(page) ==
  LET passA == IF page.script = "json" THEN _parse_next_data(page.data)
               ELSE [raised |-> FALSE, models |-> <<>>]
      existing_ids == {passA.models[i].identifier : i \in 1..Len(passA.models)}
      new_ids == found_ids(page) \ existing_ids
  IN IF passA.raised THEN {[raised |-> TRUE, models |-> <<>>]}
     ELSE {[raised |-> FALSE,
            models |-> passA.models \o [i \in 1..Len(o) |-> _create_model_info(o[i])]]
             : o \in Orderings(new_ids)}

\* The root pages drawn by the model (response.text of the root-page GET).
Pages ==
  << \* 1: no script, no match
     [script |-> "none",
      data |-> JNull,
      text |-> <<>>],
     \* 2: definitions under mapping keys
     [script |-> "json",
      data |-> JDict(<<
                << <<"p","r","o","p","s">>,
                   JDict(<<
                     << <<"p","a","g","e","P","r","o","p","s">>,
                        JDict(<<
                          << <<"m","1">>,
                             JDict(<<
                               << <<"i","d","e","n","t","i","f","i","e","r">>,
                                  JStr(<<"g","p","t","5","1">>) >>,
                               << <<"n","a","m","e">>,
                                  JStr(<<"G","P","T","-","5",".","1">>) >>,
                               << <<"d","e","s","c","r","i","p","t","i","o","n">>,
                                  JStr(<<"d">>) >>,
                               << <<"p","r","o","v","i","d","e","r">>,
                                  JStr(<<"O","p","e","n","A","I">>) >>,
                               << <<"i","s","P","r","o">>,
                                  JBool(TRUE) >> >>) >>,
                          << <<"m","2">>,
                             JDict(<<
                               << <<"m","o","d","e","l","I","d">>,
                                  JStr(<<"c","l","a","u","d","e","4","5","s","o","n","n","e","t","t","h","i","n","k","i","n","g">>) >> >>) >> >>) >> >>) >> >>),
      text |-> <<>>],
     \* 3: definition as an element of a list
     [script |-> "json",
      data |-> JDict(<<
                << <<"m","o","d","e","l","s">>,
                   JList(<<
                     JDict(<<
                       << <<"i","d","e","n","t","i","f","i","e","r">>,
                          JStr(<<"g","p","t","5","2">>) >>,
                       << <<"n","a","m","e">>,
                          JStr(<<"F","i","v","e"," ","T","w","o">>) >> >>) >>) >> >>),
      text |-> <<>>],
     \* 4: the same identifier in two nodes
     [script |-> "json",
      data |-> JDict(<<
                << <<"a">>,
                   JDict(<<
                     << <<"i","d","e","n","t","i","f","i","e","r">>,
                        JStr(<<"s","o","n","a","r">>) >>,
                     << <<"n","a","m","e">>,
                        JStr(<<"A">>) >> >>) >>,
                << <<"b">>,
                   JDict(<<
                     << <<"i","d","e","n","t","i","f","i","e","r">>,
                        JStr(<<"s","o","n","a","r">>) >>,
                     << <<"n","a","m","e">>,
                        JStr(<<"B">>) >> >>) >> >>),
      text |-> <<>>],
     \* 5: embedded JSON and free text
     [script |-> "json",
      data |-> JDict(<<
                << <<"c","f","g">>,
                   JDict(<<
                     << <<"i","d","e","n","t","i","f","i","e","r">>,
                        JStr(<<"p","p","l","x","_","p","r","o">>) >>,
                     << <<"n","a","m","e">>,
                        JStr(<<"P","r","o">>) >>,
                     << <<"i","s","P","r","o">>,
                        JBool(FALSE) >> >>) >> >>),
      text |-> <<<< <<"i","d","e","n","t","i","f","i","e","r">>, <<"p","p","l","x","_","p","r","o">> >>,
                << <<"m","o","d","e","l">>, <<"s","o","n","a","r","_","p","r","o">> >>,
                << <<"m","o","d","e","l","I","d">>, <<"a","p","i","_","k","e","y">> >>,
                << <<"m","o","d","e","l">>, <<"a","b">> >>,
                << <<"m","o","d","e","l">>, <<"g","r","o","k","4","1","n","o","n","r","e","a","s","o","n","i","n","g">> >>>>],
     \* 6: malformed script, free text only
     [script |-> "malformed",
      data |-> JNull,
      text |-> <<<< <<"m","o","d","e","l">>, <<"k","i","m","i","k","2","t","h","i","n","k","i","n","g">> >>,
                << <<"m","o","d","e","l","I","d">>, <<"G","P","T","5","1">> >>,
                << <<"m","o","d","e","l">>, <<"g","p","t","-","5">> >>>>],
     \* 7: identifier that is a number
     [script |-> "json",
      data |-> JDict(<<
                << <<"x">>,
                   JDict(<<
                     << <<"i","d","e","n","t","i","f","i","e","r">>,
                        JNum >>,
                     << <<"n","a","m","e">>,
                        JStr(<<"n">>) >> >>) >> >>),
      text |-> <<>>],
     \* 8: empty name
     [script |-> "json",
      data |-> JDict(<<
                << <<"x">>,
                   JDict(<<
                     << <<"i","d","e","n","t","i","f","i","e","r">>,
                        JStr(<<"l","l","a","m","a","_","3">>) >>,
                     << <<"n","a","m","e">>,
                        JStr(<<>>) >> >>) >> >>),
      text |-> <<>>],
     \* 9: definition at the root
     [script |-> "json",
      data |-> JDict(<<
                << <<"i","d","e","n","t","i","f","i","e","r">>,
                   JStr(<<"d","e","e","p","s","e","e","k","_","r","1">>) >>,
                << <<"n","a","m","e">>,
                   JStr(<<"R","o","o","t">>) >>,
                << <<"i","s","P","r","o">>,
                   JBool(TRUE) >> >>),
      text |-> <<>>],
     \* 10: rejected identifiers only
     [script |-> "json",
      data |-> JDict(<<
                << <<"s","e","s","s","i","o","n">>,
                   JDict(<<
                     << <<"i","d","e","n","t","i","f","i","e","r">>,
                        JStr(<<"s","e","s","s","i","o","n","_","a","b","c">>) >> >>) >>,
                << <<"u">>,
                   JDict(<<
                     << <<"m","o","d","e","l","I","d">>,
                        JStr(<<"x","y">>) >> >>) >> >>),
      text |-> <<>>],
     \* 11: invalid identifier beside a valid modelId
     [script |-> "json",
      data |-> JDict(<<
                << <<"x">>,
                   JDict(<<
                     << <<"i","d","e","n","t","i","f","i","e","r">>,
                        JStr(<<"f","o","o">>) >>,
                     << <<"m","o","d","e","l","I","d">>,
                        JStr(<<"m","i","s","t","r","a","l","7","b">>) >> >>) >> >>),
      text |-> <<>>],
     \* 12: document that is a list
     [script |-> "json",
      data |-> JList(<<
                JDict(<<
                  << <<"i","d","e","n","t","i","f","i","e","r">>,
                     JStr(<<"g","p","t","5","1">>) >> >>) >>),
      text |-> <<>>] >>

(***************************************************************************)
(* The auxiliary fetch: _fetch_from_settings.                              *)
(***************************************************************************)
\* endpoints, in the order of the loop
endpoints == <<"/api/auth/session", "/api/user/settings">>

\* the keys looked for: ["models", "availableModels", "supportedModels"]
ModelListKeys ==
  << <<"m","o","d","e","l","s">>,
     <<"a","v","a","i","l","a","b","l","e","M","o","d","e","l","s">>,
     <<"s","u","p","p","o","r","t","e","d","M","o","d","e","l","s">> >>

\* The ModelInfo built from a record m that has an "identifier" string;
\* is_pro and supports_reasoning keep the dataclass defaults.
SettingsRecord(m) ==
  LET id == Get(m, K_identifier).s IN
  ModelInfo(id,
            GetStr(m, K_name, id),
            GetStr(m, K_description, <<>>),
            GetStr(m, K_mode, <<"c","o","p","i","l","o","t">>),
            _infer_provider(id),
            FALSE, FALSE)

RECURSIVE SettingsList(_, _, _)
RECURSIVE SettingsKeys(_, _, _)

\* "for m in model_list" from element j on, acc the models appended so far.
\* _infer_provider raises AttributeError on an identifier that is no string;
\* what was appended before stays appended.
SettingsList(model_list, j, acc) ==
  IF j > Len(model_list.items) THEN [raised |-> FALSE, models |-> acc]
  ELSE LET m == model_list.items[j] IN
       IF m.t = "str"
         THEN SettingsList(model_list, j + 1, Append(acc, _create_model_info(m.s)))
       ELSE IF m.t = "dict" /\ HasKey(m, K_identifier)
         THEN IF Get(m, K_identifier).t /= "str"
                THEN [raised |-> TRUE, models |-> acc]
              ELSE SettingsList(model_list, j + 1, Append(acc, SettingsRecord(m)))
       ELSE SettingsList(model_list, j + 1, acc)

\* "for key in [...]" from key k on
SettingsKeys(data, k, acc) ==
  IF k > Len(ModelListKeys) THEN [raised |-> FALSE, models |-> acc]
  ELSE IF HasKey(data, ModelListKeys[k]) /\ Get(data, ModelListKeys[k]).t = "list"
    THEN LET r == SettingsList(Get(data, ModelListKeys[k]), 1, acc) IN
         IF r.raised THEN r ELSE SettingsKeys(data, k + 1, r.models)
  ELSE SettingsKeys(data, k + 1, acc)

\* The bodies the auxiliary endpoints answer with in this model.
AuxBodies ==
  << \* 1: bare identifiers
     JDict(<<
       << <<"m","o","d","e","l","s">>,
          JList(<<
            JStr(<<"g","p","t","5","1">>),
            JStr(<<"s","o","n","a","r","_","p","r","o">>) >>) >> >>),
     \* 2: pre-structured records
     JDict(<<
       << <<"u","s","e","r">>,
          JDict(<<
            << <<"n","a","m","e">>,
               JStr(<<"x">>) >> >>) >>,
       << <<"a","v","a","i","l","a","b","l","e","M","o","d","e","l","s">>,
          JList(<<
            JDict(<<
              << <<"i","d","e","n","t","i","f","i","e","r">>,
                 JStr(<<"c","l","a","u","d","e","4","5","s","o","n","n","e","t">>) >>,
              << <<"n","a","m","e">>,
                 JStr(<<"C","l","a","u","d","e">>) >>,
              << <<"d","e","s","c","r","i","p","t","i","o","n">>,
                 JStr(<<"c">>) >>,
              << <<"m","o","d","e">>,
                 JStr(<<"m">>) >> >>),
            JDict(<<
              << <<"n","a","m","e">>,
                 JStr(<<"n","o","i","d">>) >> >>),
            JNum >>) >> >>),
     \* 3: an empty bare identifier
     JDict(<<
       << <<"m","o","d","e","l","s">>,
          JList(<<
            JStr(<<>>) >>) >> >>),
     \* 4: a record with a two-character identifier
     JDict(<<
       << <<"s","u","p","p","o","r","t","e","d","M","o","d","e","l","s">>,
          JList(<<
            JDict(<<
              << <<"i","d","e","n","t","i","f","i","e","r">>,
                 JStr(<<"a","b">>) >> >>) >>) >> >>),
     \* 5: a record whose identifier is a number, after a bare identifier
     JDict(<<
       << <<"m","o","d","e","l","s">>,
          JList(<<
            JStr(<<"g","p","t","5","2">>),
            JDict(<<
              << <<"i","d","e","n","t","i","f","i","e","r">>,
                 JNum >> >>),
            JStr(<<"g","p","t","5","1">>) >>) >>,
       << <<"s","u","p","p","o","r","t","e","d","M","o","d","e","l","s">>,
          JList(<<
            JStr(<<"g","r","o","k">>) >>) >> >>),
     \* 6: no model key
     JDict(<<
       << <<"u","s","e","r">>,
          JStr(<<"x">>) >> >>),
     \* 7: a document that is a list
     JList(<<
       JStr(<<"g","p","t","5","1">>) >>),
     \* 8: keys out of order, one not a list
     JDict(<<
       << <<"s","u","p","p","o","r","t","e","d","M","o","d","e","l","s">>,
          JList(<<
            JStr(<<"k","i","m","i","_","k","2">>) >>) >>,
       << <<"m","o","d","e","l","s">>,
          JStr(<<"g","p","t","5","1">>) >>,
       << <<"a","v","a","i","l","a","b","l","e","M","o","d","e","l","s">>,
          JList(<<
            JStr(<<"l","l","a","m","a","_","3">>) >>) >> >>) >>

\* One pass of the endpoint loop body for a response, models the list so
\* far: the list afterwards, and whether the "except Exception: continue"
\* was taken.  A response is [kind, body]: "netexc" (session.get raises),
\* "status" (status_code is not 200), "badjson" (response.json() raises),
\* "json" (status 200, the body parses to AuxBodies[body]).
EndpointStep(resp, models) ==
  IF resp.kind = "netexc" THEN [raised |-> TRUE, models |-> models]
  ELSE IF resp.kind = "status" THEN [raised |-> FALSE, models |-> models]
  ELSE IF resp.kind = "badjson" THEN [raised |-> TRUE, models |-> models]
  ELSE IF AuxBodies[resp.body].t = "dict"
    THEN SettingsKeys(AuxBodies[resp.body], 1, models)
  ELSE [raised |-> FALSE, models |-> models]

(***************************************************************************)
(* Bounds of the model.                                                    *)
(***************************************************************************)
\* how many HTTP clients one behaviour may construct
MaxClients == 3

\* nesting depth of the synthetic documents walked step by step
ChainDepth == 15

(***************************************************************************)
(* State.                                                                  *)
(*   _session, _models   the fetcher's fields (None is 0, a client is its  *)
(*                       number in order of construction)                  *)
(*   nextClient, closed  the clients constructed so far (1..nextClient-1)  *)
(*                       and how often close() was called on each          *)
(*   pc, caller          where the running call stands and who called      *)
(*                       fetch_models: "api", "gmbi" (get_model_by_id),    *)
(*                       "gam" (get_available_models)                      *)
(*   rootResp, extracted, auxResps, auxModels, raisedInTry                 *)
(*                       the locals of the running fetch_models call       *)
(*   trace               the stages the running call went through          *)
(*   result              what the last fetch_models call gave its caller   *)
(*   scope               the with-block around the fetcher                 *)
(*   lastOp, tick        the last public operation called; tick flips at   *)
(*                       every call                                        *)
(*   epochClients        the clients that served a request since the last  *)
(*                       close()                                           *)
(*   completed           whether a fetch_models call has returned          *)
(*   lookupId, found     argument and result of get_model_by_id            *)
(*   wide                which input sets the behaviour draws from         *)
(*   wInput, wStack, wModels, wCut                                         *)
(*                       the step-by-step walk of search_dict              *)
(***************************************************************************)
VARIABLES _session, _models, nextClient, closed, pc, caller,
          rootResp, extracted, auxResps, auxModels, raisedInTry, trace,
          result, scope, exitVia, lastOp, tick, epochClients, completed,
          lookupId, found, wide, wInput, wStack, wModels, wCut

fetcherVars == <<_session, _models>>

clientVars == <<nextClient, closed>>

callVars == <<rootResp, extracted, auxResps, auxModels, raisedInTry, trace>>

lookupVars == <<lookupId, found>>

walkVars == <<wInput, wStack, wModels, wCut>>

vars == <<_session, _models, nextClient, closed, pc, caller,
          rootResp, extracted, auxResps, auxModels, raisedInTry, trace,
          result, scope, exitVia, lastOp, tick, epochClients, completed,
          lookupId, found, wide, wInput, wStack, wModels, wCut>>

\* self._session is None
None == 0

NoResponse == [kind |-> "none", page |-> 0]

NoResult == [kind |-> "none", value |-> <<>>]

NoWalk == [k |-> 0, variant |-> "none"]

(***************************************************************************)
(* Inputs: what the network answers.                                       *)
(***************************************************************************)
\* Answers to the root-page GET: a network exception, a status that
\* raise_for_status() rejects, or a page.
RootResponses ==
  {[kind |-> "netexc", page |-> 0], [kind |-> "status", page |-> 0]}
  \cup {[kind |-> "ok", page |-> p] :
          p \in IF wide THEN 1..Len(Pages) ELSE {1, 2, 7}}

\* Answers of an auxiliary endpoint.
AuxResponses ==
  {[kind |-> "netexc", body |-> 0], [kind |-> "status", body |-> 0]}
  \cup (IF wide THEN {[kind |-> "badjson", body |-> 0]} ELSE {})
  \cup {[kind |-> "json", body |-> b] :
          b \in IF wide THEN 1..Len(AuxBodies) ELSE {1, 6}}

\* Arguments of get_model_by_id.
LookupIds ==
  { <<"g","p","t","5","1">>,
    <<"p","p","l","x","_","p","r","o">>,
    <<"n","o","p","e">> }

(***************************************************************************)
(* __init__                                                                *)
(***************************************************************************)
FetcherInit ==
  /\ _session = None
  /\ _models = <<>>
  /\ nextClient = 1
  /\ closed = [c \in 1..MaxClients |-> 0]
  /\ pc = "idle"
  /\ caller = "api"
  /\ rootResp = NoResponse
  /\ extracted = <<>>
  /\ auxResps = <<>>
  /\ auxModels = <<>>
  /\ raisedInTry = FALSE
  /\ trace = <<>>
  /\ result = NoResult
  /\ scope = "none"
  /\ exitVia = "none"
  /\ lastOp = "init"
  /\ tick = 0
  /\ epochClients = {}
  /\ completed = FALSE
  /\ lookupId = <<>>
  /\ found = <<>>

WalkIdle ==
  /\ wInput = NoWalk
  /\ wStack = <<>>
  /\ wModels = <<>>
  /\ wCut = FALSE

Init == FetcherInit /\ WalkIdle /\ wide = FALSE

(***************************************************************************)
(* _get_session and close                                                  *)
(***************************************************************************)
\* _get_session without the "is None" test: a client per call
_get_session_NoMemo(ok) ==
  IF ok
    THEN /\ _session' = nextClient
         /\ nextClient' = nextClient + 1
    ELSE UNCHANGED <<_session, nextClient>>

\* _get_session(): construct a client when none is held; ok tells whether
\* Session(...) returns or raises.
_get_session(ok) ==
  IF _session = None /\ ok
    THEN /\ _session' = nextClient
         /\ nextClient' = nextClient + 1
    ELSE UNCHANGED <<_session, nextClient>>

\* whether that call of _get_session raises
SessionRaises(ok) == _session = None /\ ~ok

\* close(): "if self._session: self._session.close(); self._session = None"
close ==
  IF _session /= None
    THEN /\ closed' = [closed EXCEPT ![_session] = @ + 1]
         /\ _session' = None
         /\ UNCHANGED <<_models, nextClient>>
    ELSE UNCHANGED <<_session, _models, nextClient, closed>>

(***************************************************************************)
(* The public operations, called when no call is running.                  *)
(***************************************************************************)
\* a new call starts: its locals are fresh
FreshCall ==
  /\ rootResp' = NoResponse
  /\ extracted' = <<>>
  /\ auxResps' = <<>>
  /\ auxModels' = <<>>
  /\ raisedInTry' = FALSE
  /\ trace' = <<>>
  /\ result' = NoResult

\* the model constructs at most MaxClients clients
CanGetSession == _session /= None \/ nextClient <= MaxClients

\* a call on the fetcher after its with-block was left
ScopeAfterUse == IF scope = "exited" THEN "none" ELSE scope

\* fetch_models(), called by the user
Call_fetch_models ==
  /\ pc = "idle"
  /\ scope /= "gam_exited"
  /\ CanGetSession
  /\ pc' = "get_session"
  /\ caller' = "api"
  /\ lastOp' = "fetch_models"
  /\ tick' = 1 - tick
  /\ scope' = ScopeAfterUse
  /\ FreshCall
  /\ UNCHANGED <<fetcherVars, clientVars, exitVia, epochClients, completed,
                 lookupVars, wide, walkVars>>

\* for model in self._models: if model.identifier == model_id: return model
Lookup(ms, model_id) ==
  IF \E i \in 1..Len(ms) : ms[i].identifier = model_id
    THEN << ms[CHOOSE i \in 1..Len(ms) :
                 /\ ms[i].identifier = model_id
                 /\ \A j \in 1..(i - 1) : ms[j].identifier /= model_id] >>
    ELSE <<>>

\* get_model_by_id(model_id): "if not self._models: self.fetch_models()"
Call_get_model_by_id ==
  /\ pc = "idle"
  /\ scope /= "gam_exited"
  /\ _models = <<>> => CanGetSession
  /\ \E model_id \in LookupIds :
       /\ lookupId' = model_id
       /\ IF _models = <<>>
            THEN /\ pc' = "get_session"
                 /\ caller' = "gmbi"
                 /\ found' = <<>>
            ELSE /\ pc' = "idle"
                 /\ caller' = caller
                 /\ found' = Lookup(_models, model_id)
  /\ lastOp' = "get_model_by_id"
  /\ tick' = 1 - tick
  /\ scope' = ScopeAfterUse
  /\ FreshCall
  /\ UNCHANGED <<fetcherVars, clientVars, exitVia, epochClients, completed,
                 wide, walkVars>>

\* close(), called by the user
Call_close ==
  /\ pc = "idle"
  /\ close
  /\ epochClients' = {}
  /\ lastOp' = "close"
  /\ tick' = 1 - tick
  /\ UNCHANGED <<pc, caller, callVars, result, scope, exitVia, completed,
                 lookupVars, wide, walkVars>>

\* __enter__: "with fetcher:" or "with PerplexityModelsFetcher(t) as fetcher:"
Call_enter ==
  /\ pc = "idle"
  /\ scope \in {"none", "exited"}
  /\ scope' = "with"
  /\ lastOp' = "enter"
  /\ tick' = 1 - tick
  /\ UNCHANGED <<fetcherVars, clientVars, pc, caller, callVars, result, exitVia,
                 epochClients, completed, lookupVars, wide, walkVars>>

\* __exit__ that does not close
Exit_WithoutClose == UNCHANGED <<_session, _models, nextClient, closed>>

\* __exit__(*args): self.close()
__exit__ == close

\* The with-block is left, at its end (exc = FALSE) or by an exception
\* raised in its body (exc = TRUE).
Call_exit ==
  /\ pc = "idle"
  /\ scope = "with"
  /\ \E exc \in BOOLEAN : exitVia' = IF exc THEN "exception" ELSE "normal"
  /\ __exit__
  /\ scope' = "exited"
  /\ epochClients' = {}
  /\ lastOp' = "exit"
  /\ tick' = 1 - tick
  /\ UNCHANGED <<pc, caller, callVars, result, completed, lookupVars, wide,
                 walkVars>>

\* get_available_models(token): a fetcher is constructed, entered, and
\* fetch_models is called in the with-block.
Call_get_available_models ==
  /\ pc = "idle"
  /\ lastOp = "init"
  /\ pc' = "get_session"
  /\ caller' = "gam"
  /\ scope' = "gam"
  /\ lastOp' = "get_available_models"
  /\ tick' = 1 - tick
  /\ FreshCall
  /\ UNCHANGED <<fetcherVars, clientVars, exitVia, epochClients, completed,
                 lookupVars, wide, walkVars>>

(***************************************************************************)
(* fetch_models, statement by statement.                                   *)
(***************************************************************************)
\* session = self._get_session()      (before the try)
Step_get_session ==
  /\ pc = "get_session"
  /\ \E ok \in BOOLEAN :
       /\ _get_session(ok)
       /\ IF SessionRaises(ok)
            THEN /\ pc' = "raised"
                 /\ result' = [kind |-> "exception", value |-> <<>>]
            ELSE /\ pc' = "root_get"
                 /\ result' = result
  /\ UNCHANGED <<_models, closed, caller, callVars, scope, exitVia, lastOp, tick,
                 epochClients, completed, lookupVars, wide, walkVars>>

\* response = session.get(API_BASE_URL); response.raise_for_status()
Step_root_get ==
  /\ pc = "root_get"
  /\ \E r \in RootResponses :
       /\ rootResp' = r
       /\ pc' = IF r.kind = "ok" THEN "extract" ELSE "except"
  /\ trace' = Append(trace, "root")
  /\ epochClients' = epochClients \cup {_session}
  /\ UNCHANGED <<fetcherVars, clientVars, caller, extracted, auxResps, auxModels,
                 raisedInTry, result, scope, exitVia, lastOp, tick, completed,
                 lookupVars, wide, walkVars>>

\* models = self._extract_models_from_html(response.text); "if not models"
Step_extract ==
  /\ pc = "extract"
  /\ \E out \in _extract_models_from_html(Pages[rootResp.page]) :
       /\ extracted' = out.models
       /\ pc' = IF out.raised THEN "except"
                ELSE IF out.models = <<>> THEN "settings"
                ELSE "finish"
  /\ trace' = Append(trace, "extract")
  /\ UNCHANGED <<fetcherVars, clientVars, caller, rootResp, auxResps, auxModels,
                 raisedInTry, result, scope, exitVia, lastOp, tick, epochClients,
                 completed, lookupVars, wide, walkVars>>

\* the endpoint loop with "break" in place of "continue"
AfterEndpoint_Break(i, raised) ==
  IF raised \/ i >= Len(endpoints) THEN "finish" ELSE "settings"

\* where the endpoint loop goes after endpoint i: "continue" after an
\* exception, the next iteration otherwise, the return after the last one
AfterEndpoint(i, raised) == IF i < Len(endpoints) THEN "settings" ELSE "finish"

\* _fetch_from_settings: one iteration of the endpoint loop.  The first one
\* follows "session = self._get_session()", inside the try of fetch_models.
Step_settings ==
  /\ pc = "settings"
  /\ LET i == Len(auxResps) + 1 IN
     \E ok \in BOOLEAN, r \in AuxResponses :
       IF i = 1 /\ SessionRaises(ok)
         THEN /\ pc' = "except"
              /\ UNCHANGED <<_session, nextClient, auxResps, auxModels, trace,
                             epochClients>>
         ELSE /\ IF i = 1 THEN _get_session(ok)
                          ELSE UNCHANGED <<_session, nextClient>>
              /\ auxResps' = Append(auxResps, r)
              /\ auxModels' = EndpointStep(r, auxModels).models
              /\ trace' = Append(trace, endpoints[i])
              /\ epochClients' = epochClients \cup {_session'}
              /\ pc' = AfterEndpoint(i, EndpointStep(r, auxModels).raised)
  /\ UNCHANGED <<_models, closed, caller, rootResp, extracted, raisedInTry, result,
                 scope, exitVia, lastOp, tick, completed, lookupVars, wide,
                 walkVars>>

\* fetch_models without "if not models" before the auxiliary fetch
FinalModels_SettingsOnly(fromPage, fromSettings) == fromSettings

\* the list fetch_models goes on with after "models = ...; if not models:
\* models = self._fetch_from_settings()"
FinalModels(fromPage, fromSettings) ==
  IF fromPage /= <<>> THEN fromPage ELSE fromSettings

\* "if not models: models = self._get_default_models()";
\* self._models = models; return models
Step_finish ==
  /\ pc = "finish"
  /\ LET models == FinalModels(extracted, auxModels) IN
     IF models = <<>>
       THEN /\ _models' = _get_default_models
            /\ trace' = Append(trace, "fallback")
       ELSE /\ _models' = models
            /\ trace' = trace
  /\ result' = [kind |-> "list", value |-> _models']
  /\ completed' = TRUE
  /\ pc' = "returned"
  /\ UNCHANGED <<_session, clientVars, caller, rootResp, extracted, auxResps,
                 auxModels, raisedInTry, scope, exitVia, lastOp, tick,
                 epochClients, lookupVars, wide, walkVars>>

\* a handler that returns the catalog without caching it
HandlerModels_NotCached == <<>>

\* the list the handler caches: self._models = self._get_default_models()
HandlerModels == _get_default_models

\* except Exception: self._models = self._get_default_models(); return it
Step_except ==
  /\ pc = "except"
  /\ raisedInTry' = TRUE
  /\ _models' = HandlerModels
  /\ trace' = Append(trace, "fallback")
  /\ result' = [kind |-> "list", value |-> _get_default_models]
  /\ completed' = TRUE
  /\ pc' = "returned"
  /\ UNCHANGED <<_session, clientVars, caller, rootResp, extracted, auxResps,
                 auxModels, scope, exitVia, lastOp, tick, epochClients,
                 lookupVars, wide, walkVars>>

\* the call is over: its locals are gone, result is what the caller holds
CallOver ==
  /\ rootResp' = NoResponse
  /\ extracted' = <<>>
  /\ auxResps' = <<>>
  /\ auxModels' = <<>>
  /\ raisedInTry' = FALSE
  /\ trace' = <<>>

\* fetch_models returns to its caller
Step_return ==
  /\ pc = "returned"
  /\ pc' = IF caller = "gmbi" THEN "lookup"
           ELSE IF caller = "gam" THEN "gam_exit"
           ELSE "idle"
  /\ CallOver
  /\ UNCHANGED <<fetcherVars, clientVars, caller, result, scope, exitVia, lastOp,
                 tick, epochClients, completed, lookupVars, wide, walkVars>>

\* the exception of Session(...) leaves fetch_models: to the user, through
\* get_model_by_id, or into the with-block of get_available_models
Step_propagate ==
  /\ pc = "raised"
  /\ pc' = IF caller = "gam" THEN "gam_exit" ELSE "idle"
  /\ CallOver
  /\ UNCHANGED <<fetcherVars, clientVars, caller, result, scope, exitVia, lastOp,
                 tick, epochClients, completed, lookupVars, wide, walkVars>>

\* get_model_by_id after its fetch_models() returned: the loop over the cache
Step_lookup ==
  /\ pc = "lookup"
  /\ found' = Lookup(_models, lookupId)
  /\ pc' = "idle"
  /\ UNCHANGED <<fetcherVars, clientVars, caller, callVars, result, scope, exitVia,
                 lastOp, tick, epochClients, completed, lookupId, wide, walkVars>>

\* get_available_models: the with-block is left, by the return or by the
\* exception of fetch_models; the fetcher is out of reach afterwards
Step_gam_exit ==
  /\ pc = "gam_exit"
  /\ __exit__
  /\ exitVia' = IF result.kind = "exception" THEN "exception" ELSE "normal"
  /\ scope' = "gam_exited"
  /\ epochClients' = {}
  /\ pc' = "idle"
  /\ UNCHANGED <<caller, callVars, result, lastOp, tick, completed, lookupVars,
                 wide, walkVars>>

\* the statements of a running fetch_models call
FetchSteps ==
  \/ Step_get_session
  \/ Step_root_get
  \/ Step_extract
  \/ Step_settings
  \/ Step_finish
  \/ Step_except
  \/ Step_return
  \/ Step_propagate

Next ==
  \/ Call_fetch_models
  \/ Call_get_model_by_id
  \/ Call_close
  \/ Call_enter
  \/ Call_exit
  \/ Call_get_available_models
  \/ FetchSteps
  \/ Step_lookup
  \/ Step_gam_exit

\* A fetcher through any sequence of its operations.
Spec == Init /\ [][Next]_vars

(***************************************************************************)
(* One fetch_models() call on a new fetcher, over every answer of the      *)
(* network the model has.                                                  *)
(***************************************************************************)
InitCall == FetcherInit /\ WalkIdle /\ wide = TRUE

CallOnce == lastOp = "init" /\ Call_fetch_models

NextCall == CallOnce \/ FetchSteps

SpecCall == InitCall /\ [][NextCall]_vars

(***************************************************************************)
(* search_dict, one step of the recursion at a time, with its call stack,  *)
(* over synthetic documents nested ChainDepth levels deep.                 *)
(***************************************************************************)
K_child == <<"c","h","i","l","d">>

K_m == <<"m">>

K_v == <<"v">>

\* the model definition planted in the synthetic documents
PlantedId == <<"g","p","t","5","1">>

PlantedFields ==
  << << K_identifier, JStr(PlantedId) >>,
     << K_name, JStr(<<"G","P","T">>) >> >>

RECURSIVE ChainNode(_, _, _)

\* The mapping at depth level (the root is at depth 0) of a document nested
\* ChainDepth levels deep.  With variant "dict" every mapping holds the next
\* one under "child" and the mapping at depth k is the model definition.
\* With variant "list" every mapping holds a list with the next one under
\* "child", and the mapping at depth k - 1 holds the model definition under
\* "m".
ChainNode(level, k, variant) ==
  JDict(
    (IF variant = "dict" /\ level = k THEN PlantedFields ELSE <<>>)
    \o << << K_v, JStr(<<"x">>) >> >>
    \o (IF variant = "list" /\ level = k - 1
          THEN << << K_m, JDict(PlantedFields) >> >> ELSE <<>>)
    \o (IF level < ChainDepth
          THEN << << K_child,
                     IF variant = "dict" THEN ChainNode(level + 1, k, variant)
                     ELSE JList(<< JStr(<<"x">>), ChainNode(level + 1, k, variant) >>)
                  >> >>
          ELSE <<>>))

\* the document of a walk
WalkTree(in) == ChainNode(0, in.k, in.variant)

WalkInputs == [k : 0..ChainDepth, variant : {"dict", "list"}]

\* A frame of search_dict: the mapping d, depth, the item i the for loop
\* stands at (0: the call has not passed the depth test), and, while the
\* item is a list, the element j the inner loop stands at.
Frame(d, depth) == [d |-> d, depth |-> depth, i |-> 0, j |-> 0]

Top == wStack[Len(wStack)]

TopDict == Top.d

Pop == SubSeq(wStack, 1, Len(wStack) - 1)

SetTop(f) == [wStack EXCEPT ![Len(wStack)] = f]

\* search_dict(data): the first call
InitWalk ==
  /\ FetcherInit
  /\ wide = FALSE
  /\ wInput \in WalkInputs
  /\ wStack = << Frame(WalkTree(wInput), 0) >>
  /\ wModels = <<>>
  /\ wCut = FALSE

\* the walk leaves the fetcher alone
FetcherUnchanged ==
  UNCHANGED <<fetcherVars, clientVars, pc, caller, callVars, result, scope,
              exitVia, lastOp, tick, epochClients, completed, lookupVars, wide>>

\* "if depth > 10: return"
Walk_enter ==
  /\ wStack /= <<>>
  /\ Top.i = 0
  /\ IF CutOff(Top.depth)
       THEN /\ wStack' = Pop
            /\ wCut' = TRUE
       ELSE /\ wStack' = SetTop([Top EXCEPT !.i = 1])
            /\ wCut' = wCut
  /\ UNCHANGED <<wInput, wModels>>
  /\ FetcherUnchanged

\* one turn of "for key, value in d.items()" on a value that is no list
Walk_item ==
  /\ wStack /= <<>>
  /\ Top.i >= 1 /\ Top.i <= Len(TopDict.items) /\ Top.j = 0
  /\ LET value == TopDict.items[Top.i][2] IN
     /\ value.t /= "list"
     /\ IF value.t = "dict"
          THEN /\ wModels' = wModels \o NodeModel(value)
               /\ wStack' = Append(SetTop([Top EXCEPT !.i = @ + 1]),
                                   Frame(value, Top.depth + 1))
          ELSE /\ wModels' = wModels
               /\ wStack' = SetTop([Top EXCEPT !.i = @ + 1])
  /\ UNCHANGED <<wInput, wCut>>
  /\ FetcherUnchanged

\* "elif isinstance(value, list): for item in value": one turn of that loop
Walk_list ==
  /\ wStack /= <<>>
  /\ Top.i >= 1 /\ Top.i <= Len(TopDict.items)
  /\ LET value == TopDict.items[Top.i][2] IN
     /\ value.t = "list"
     /\ IF Top.j + 1 > Len(value.items)
          THEN wStack' = SetTop([Top EXCEPT !.i = @ + 1, !.j = 0])
          ELSE IF value.items[Top.j + 1].t = "dict"
            THEN wStack' = Append(SetTop([Top EXCEPT !.j = @ + 1]),
                                  Frame(value.items[Top.j + 1], Top.depth + 1))
          ELSE wStack' = SetTop([Top EXCEPT !.j = @ + 1])
  /\ UNCHANGED <<wInput, wModels, wCut>>
  /\ FetcherUnchanged

\* the for loop is over: the call returns
Walk_return ==
  /\ wStack /= <<>>
  /\ Top.i > Len(TopDict.items)
  /\ wStack' = Pop
  /\ UNCHANGED <<wInput, wModels, wCut>>
  /\ FetcherUnchanged

WalkNext ==
  \/ Walk_enter
  \/ Walk_item
  \/ Walk_list
  \/ Walk_return

\* The interpreter runs a call to its end: a step that can be taken is taken.
SpecWalk == InitWalk /\ [][WalkNext]_vars /\ WF_vars(WalkNext)

\* the walk is over
WalkDone == wInput /= NoWalk /\ wStack = <<>>

\* The step-by-step walk appends what search_dict is computed to append.
WalkAgrees == WalkDone => wModels = search_dict(WalkTree(wInput), 0)

(***************************************************************************)
(* Properties.                                                             *)
(***************************************************************************)
\* the identifiers of a list of models
Ids(ms) == {ms[i].identifier : i \in 1..Len(ms)}

\* the clients constructed so far
Constructed == 1..(nextClient - 1)

\* the step is a call of the public operation op
Calls(op) == tick' /= tick /\ lastOp' = op

\* the try block of the running call raised: the root-page GET failed or
\* the extraction of the page raises
TryRaised ==
  \/ rootResp.kind \in {"netexc", "status"}
  \/ /\ rootResp.kind = "ok"
     /\ \E i \in 1..Len(trace) : trace[i] = "extract"
     /\ \E out \in _extract_models_from_html(Pages[rootResp.page]) : out.raised

\* C1: whatever the session construction, the root-page GET, the extraction
\* and the auxiliary requests do, fetch_models() ends by returning a list and
\* no exception reaches its caller; when the root-page GET fails the list is
\* the Fallback Catalog.
C1_NeverRaises ==
  /\ pc /= "raised"
  /\ result.kind /= "exception"
  /\ pc = "returned" =>
       /\ result.kind = "list"
       /\ rootResp.kind \in {"netexc", "status"} => result.value = _get_default_models

\* position of a stage in the order root-page GET, extraction, auxiliary
\* endpoints, fallback
StageRank(stage) ==
  CASE stage = "root" -> 1
    [] stage = "extract" -> 2
    [] stage = endpoints[1] -> 3
    [] stage = endpoints[2] -> 4
    [] OTHER -> 5

C3_StateOk ==
  /\ _session \in {None} \cup Constructed
  /\ \A c \in Constructed : closed[c] = IF c = _session THEN 0 ELSE 1
  /\ Cardinality(epochClients) <= 1
  /\ epochClients \subseteq {_session} \ {None}

C3_StepOk ==
  /\ nextClient' /= nextClient =>
       /\ _session = None
       /\ _session' = nextClient
       /\ nextClient' = nextClient + 1
  /\ _session /= None /\ _session' /= _session =>
       /\ _session' = None
       /\ closed' = [closed EXCEPT ![_session] = 1]
  /\ Calls("close") =>
       IF _session /= None
         THEN /\ _session' = None
              /\ closed' = [closed EXCEPT ![_session] = 1]
              /\ UNCHANGED <<_models, nextClient>>
         ELSE UNCHANGED <<_session, _models, nextClient, closed>>

C3_OneClient == [](C3_StateOk) /\ [][C3_StepOk]_vars

\* a second client is held after the first was closed, it has served a
\* request, and the next call is about to use it again
C3_Witness ==
  /\ pc = "root_get"
  /\ _session = 2
  /\ closed[1] = 1
  /\ epochClients = {2}

\* the with-block has been left
ScopeLeft == scope \in {"exited", "gam_exited"}

\* C4: after the with-block around a fetcher is left, at its end or by an
\* exception, every client the fetcher constructed is closed and the
\* reference is empty, and a close() after that changes nothing.
C4_ClosedAfterScope ==
  /\ [](ScopeLeft => /\ _session = None
                     /\ \A c \in Constructed : closed[c] = 1)
  /\ [][ScopeLeft /\ Calls("close") =>
          UNCHANGED <<_session, _models, nextClient, closed>>]_vars

\* the block was left by an exception with a client constructed, and close()
\* was called afterwards
C4_Witness ==
  /\ scope = "exited"
  /\ exitVia = "exception"
  /\ lastOp = "close"
  /\ nextClient > 1
  /\ closed[1] = 1

\* the extraction of the running call has returned its list
Extracted == pc \in {"settings", "finish"}

\* what Pass A gave for the page of the running call
PassA == IF Pages[rootResp.page].script = "json"
           THEN _parse_next_data(Pages[rootResp.page].data).models
           ELSE <<>>

\* C5: the list the extractor returns has no two records with the same
\* identifier, and an identifier found both in the embedded JSON (Pass A)
\* and by a free-text pattern gives exactly one record, the one of Pass A.
C5_Deduplicated ==
  Extracted =>
    /\ \A i, j \in 1..Len(extracted) :
         i /= j => extracted[i].identifier /= extracted[j].identifier
    /\ \A id \in Ids(PassA) \cap found_ids(Pages[rootResp.page]) :
         /\ Cardinality({i \in 1..Len(extracted) : extracted[i].identifier = id}) = 1
         /\ \E i \in 1..Len(PassA) : PassA[i].identifier = id /\ extracted[i] = PassA[i]

\* C6: every record of a list fetch_models() returns has an identifier of
\* length >= 3 and a non-empty name.
C6_IdentifierAndName ==
  pc = "returned" /\ result.kind = "list" =>
    \A i \in 1..Len(result.value) :
      /\ Len(result.value[i].identifier) >= 3
      /\ result.value[i].name /= <<>>

\* C7: the walk of Pass A is cut off at the depth bound: in a document of
\* nested mappings 15 levels deep a model definition at depth 12 (or deeper)
\* is not extracted, one at depth 9 (or less deep, below the root) is, and
\* the walk ends.
C7_DepthBound ==
  /\ [](WalkDone /\ wInput.variant = "dict" =>
          /\ wInput.k >= 12 => wModels = <<>>
          /\ wInput.k \in 1..9 =>
               Len(wModels) = 1 /\ wModels[1].identifier = PlantedId)
  /\ <>WalkDone

\* the walk of the document with the definition at depth 12 is over, and a
\* call was cut off
C7_Witness ==
  /\ WalkDone
  /\ wInput = [k |-> 12, variant |-> "dict"]
  /\ wCut
  /\ wModels = <<>>

\* the identifier of a mapping that holds a valid one under "identifier" or
\* "modelId" (<<>> when it holds none)
DefinitionId(node) ==
  IF ValidJson(Get(node, K_identifier)) THEN Get(node, K_identifier).s
  ELSE IF ValidJson(Get(node, K_modelId)) THEN Get(node, K_modelId).s
  ELSE <<>>

\* the record built from the sibling fields of such a mapping
DefinitionModel(node) ==
  ModelInfo(DefinitionId(node),
            GetStr(node, K_name, DefinitionId(node)),
            GetStr(node, K_description, <<>>),
            GetStr(node, K_mode, <<"c","o","p","i","l","o","t">>),
            GetStr(node, K_provider, <<"u","n","k","n","o","w","n">>),
            GetBool(node, K_isPro, FALSE),
            SupportsReasoning(DefinitionId(node)))

RECURSIVE Definitions(_, _)
RECURSIVE DefinitionsIn(_, _, _)

\* the records of all mappings of v, at nesting depth `depth` or deeper and
\* inside the depth bound, that hold a valid identifier: the root, values of
\* mapping keys and elements of sequences alike
Definitions(v, depth) ==
  IF depth > MaxSearchDepth THEN {}
  ELSE (IF v.t = "dict" /\ DefinitionId(v) /= <<>> THEN {DefinitionModel(v)} ELSE {})
       \cup DefinitionsIn(v, depth, 1)

DefinitionsIn(v, depth, i) ==
  IF v.t \notin {"dict", "list"} \/ i > Len(v.items) THEN {}
  ELSE Definitions(IF v.t = "dict" THEN v.items[i][2] ELSE v.items[i], depth + 1)
       \cup DefinitionsIn(v, depth, i + 1)

\* C8: Pass A gives a record for every mapping inside the depth bound that
\* holds a valid identifier under "identifier" or "modelId", be it the root,
\* the value of a key or an element of a sequence, built from the mapping's
\* sibling fields.
C8_EveryDefinition ==
  Extracted /\ Pages[rootResp.page].script = "json" =>
    \A m \in Definitions(Pages[rootResp.page].data, 0) :
      \E i \in 1..Len(PassA) : PassA[i] = m

\* the stages of the trace that are auxiliary endpoints
AuxStages == SelectSeq(trace, LAMBDA stage : StageRank(stage) \in {3, 4})

\* C9: the auxiliary fetch requests /api/auth/session and then
\* /api/user/settings; the failure of an endpoint (network exception, status
\* other than 200, unparsable body, exception while reading it) raises
\* nothing out of the auxiliary fetch, the next endpoint is still requested,
\* and the models of the other endpoint are in the returned list.
C9_EndpointsIndependent ==
  /\ AuxStages = SubSeq(endpoints, 1, Len(auxResps))
  /\ pc = "except" => auxResps = <<>>
  /\ auxResps /= <<>> => ~raisedInTry
  /\ pc \in {"finish", "returned"} /\ auxResps /= <<>> =>
       /\ Len(auxResps) = Len(endpoints)
       /\ \A e \in 1..Len(auxResps) :
            LET got == EndpointStep(auxResps[e], <<>>).models IN
            \A n \in 1..Len(got) :
              /\ \E i \in 1..Len(auxModels) : auxModels[i] = got[n]
              /\ pc = "returned" =>
                   \E i \in 1..Len(result.value) : result.value[i] = got[n]

\* the first endpoint failed and the models of the second were returned
C9_Witness ==
  /\ pc = "returned"
  /\ Len(auxResps) = 2
  /\ auxResps[1].kind = "netexc"
  /\ auxResps[2].kind = "json"
  /\ auxModels /= <<>>
  /\ result.value = auxModels

\* C10: once a fetch_models() call has returned, the cached list is
\* non-empty and is the list that call returned; close() leaves it as it
\* is; get_model_by_id() starts a fetch (requests, a client) only if no
\* fetch_models() has returned on the fetcher, and answers from the cache
\* otherwise, also after close().
C10_StateOk ==
  /\ pc = "returned" => _models /= <<>> /\ result = [kind |-> "list", value |-> _models]
  /\ result.kind = "list" => result.value = _models
  /\ completed => _models /= <<>>

C10_StepOk ==
  /\ Calls("close") \/ Calls("exit") \/ pc = "gam_exit" => _models' = _models
  /\ Calls("get_model_by_id") =>
       IF completed
         THEN /\ pc' = "idle"
              /\ found' = Lookup(_models, lookupId')
              /\ UNCHANGED <<_session, _models, nextClient, closed, epochClients>>
         ELSE pc' = "get_session" /\ caller' = "gmbi"

C10_CacheKept == [](C10_StateOk) /\ [][C10_StepOk]_vars

\* get_model_by_id() answered from the cache after close(): no client is
\* held and none was constructed beyond the first
C10_Witness ==
  /\ pc = "idle"
  /\ lastOp = "get_model_by_id"
  /\ completed
  /\ found /= <<>>
  /\ _session = None
  /\ nextClient = 2
  /\ closed[1] = 1

====
